---- MODULE Spec2Model ----
(***************************************************************************)
(* Model of the 3D property tour generator: the command line script        *)
(* generate-3d-tour.js and the web application (pages/index.js, the        *)
(* /api/generate handlers and the /api/status handlers).                   *)
(*                                                                         *)
(* One workflow instance runs at a time.  variant selects the program:     *)
(*   "cli"   generate-3d-tour.js                                           *)
(*   "web1"  first web page (index.js:786) + upload handler                *)
(*           (generate.js:72) + status handler (unnamed/part_000)          *)
(*   "web2"  first web page + base64 handler (generate.js:159)             *)
(*           + status handler (generate.js:352)                            *)
(*   "web3"  second web page (index.js:8) + layout-aware handler           *)
(*           (generate.js:246) + status handler (generate.js:352)          *)
(* The vendor (World Labs API) is the environment: every response it can   *)
(* give is drawn with \E from a small set.                                 *)
(***************************************************************************)
EXTENDS Integers, Sequences, FiniteSets, TLC

(***************************************************************************)
(* Bounds of the model.                                                    *)
(***************************************************************************)
\* most image arguments after --images on the command line
MaxCliImages == 7
\* most photos a user selects in the first web page
MaxPhotos == 4
\* most photos a user selects in the second web page
MaxUiImages == 2
\* most entries of the worlds gallery before the model stops starting tours
MaxWorlds == 1
\* latency of a slow vendor answer to a status query, counted in poll
\* intervals (a fast answer takes no time)
SlowPolls == 30
\* most URL arguments among the --images arguments
MaxUrlInputs == 1
\* most inputs of a run in which the vendor leaves the id out of an upload answer
MaxIdlessInputs == 2
\* most images of a run of the script whose inputs are all URLs
MaxAzimuthImages == 40
\* most images in the body a client posts to /api/generate
MaxApiImages == 2
\* most media a user keeps selected under an input type that does not show
\* them, when switching the input type of the second page
MaxHiddenMedia == 0
\* most photos a user selects in the second page when only the upload card
\* and the submission are looked at
MaxLayoutImages == 5

(***************************************************************************)
(* Program constants.                                                      *)
(***************************************************************************)
maxWaitMs == 300000
pollInterval == 5000
\* the wait of the poll loop of the pages, in ms
pagePollInterval == 3000
AutoMaxImages == 8
DirectionMaxImages == 4
\* latency, in ms, of a slow vendor answer
SlowMs == SlowPolls * pollInterval

Variants == {"cli", "web1", "web2", "web3"}
WebVariants == {"web1", "web2", "web3"}

(***************************************************************************)
(* JavaScript values.  A string is a sequence of characters; undefined is  *)
(* a value of its own that a template literal prints as "undefined".       *)
(***************************************************************************)
Undefined == <<"#undefined">>
Empty == <<>>
Truthy(v) == v # Undefined /\ v # Empty
\* a || b
Or(a, b) == IF Truthy(a) THEN a ELSE b
\* `${v}`
ToStr(v) == IF v = Undefined THEN <<"u", "n", "d", "e", "f", "i", "n", "e", "d">> ELSE v
\* s.includes(t)
Contains(s, t) ==
  \E k \in 0..(Len(s) - Len(t)) : SubSeq(s, k + 1, k + Len(t)) = t

\* the fixed prefix https://platform.worldlabs.ai/worlds/
PlatformPrefix == <<"h", "t", "t", "p", "s", ":", "/", "/", "p", "/", "w", "/">>
\* `https://platform.worldlabs.ai/worlds/${worldId}`
DefaultViewUrl(worldId) == PlatformPrefix \o ToStr(worldId)

(***************************************************************************)
(* What the vendor can answer.                                             *)
(***************************************************************************)
\* world ids the vendor hands out: W1 in response.world_id, W2 in response.id
W1 == <<"a", "b", "c">>
W2 == <<"x", "y">>
\* an operation id
OpId == <<"o", "p">>
\* a world_marble_url of the vendor; nothing makes it mention the world id
MarbleUrl == <<"h", "t", "t", "p", "s", ":", "/", "/", "m", "/", "v">>

NoResp == [present |-> FALSE, world_id |-> Undefined, id |-> Undefined]
Resps ==
  {NoResp} \cup
  {[present |-> TRUE, world_id |-> w, id |-> i] :
     w \in {Undefined, Empty, W1}, i \in {Undefined, W2}}
\* metadata.progress_pct: absent, or a number
Pcts == {<<>>, <<0>>, <<42>>}
\* GET /operations/{id}: a JSON body with done (pending or done), a non-2xx
\* answer with a JSON error body, or a body that is not JSON
StatusReplies ==
  {[k |-> "pending", pct |-> p, error |-> FALSE, resp |-> NoResp] : p \in Pcts}
  \cup {[k |-> "done", pct |-> <<>>, error |-> e, resp |-> r] :
          e \in BOOLEAN, r \in Resps}
  \cup {[k |-> x, pct |-> <<>>, error |-> FALSE, resp |-> NoResp] :
          x \in {"httperr", "text"}}
NoStatus == [k |-> "none", pct |-> <<>>, error |-> FALSE, resp |-> NoResp]
\* POST /media answers with one of these status codes
UploadStatuses == {200, 201, 413}
\* the id of an uploaded medium
MediaId == <<"m">>
\* the body of an upload answer, in a run with n inputs: id and media_id may
\* each be there or not
UploadBodies(n) ==
  {b \in [id : {Undefined, MediaId}, media_id : {Undefined, MediaId}] :
     n > MaxIdlessInputs => (Truthy(b.id) \/ Truthy(b.media_id))}
\* POST /worlds/generate: status code and body (JSON with operation_id, JSON
\* without it, or not JSON)
SubmitReplies ==
  [status : {200, 201, 202, 500}, body : {"op", "json", "text"}]
\* GET /api/world as the page sees it: fetch throws, a non-ok answer, an ok
\* answer without world_marble_url, an ok answer with it
WorldReplies == {"throw", "notok", "nourl", "url"}

(***************************************************************************)
(* Inputs.                                                                 *)
(***************************************************************************)
SeqsUpTo(S, n) == UNION {[1..k -> S] : k \in 0..n}
Count(s, x) == Cardinality({k \in 1..Len(s) : s[k] = x})
CliModes == {"none", "text", "image", "multi", "video"}
\* argv after parsing: an input is a URL ("http") or a local path ("file")
CliInputs(m) ==
  IF m = "multi"
    THEN {s \in SeqsUpTo({"http", "file"}, MaxCliImages) :
            Count(s, "http") <= MaxUrlInputs}
    ELSE IF m \in {"image", "video"}
      THEN {<<"http">>, <<"file">>}
      ELSE {<<>>}

(***************************************************************************)
(* Pure functions of the code.                                             *)
(***************************************************************************)
\* a variant of Azimuth that rounds the step before it multiplies
AzimuthRoundedStep(i, n) == i * ((2 * 360 + n) \div (2 * n))
\* a variant of Azimuth that truncates (Math.floor) instead of rounding
AzimuthFloor(i, n) == (i * 360) \div n
\* Math.round(i * (360 / n)), n >= 1: the doubles are exact enough for the
\* result to be the rounding (half up) of the rational i*360/n for n < 112
Azimuth(i, n) == (2 * i * 360 + n) \div (2 * n)
\* a variant of StatusOk that only rejects server errors
StatusOkBelow500(status) == status < 500
\* upload.status !== 200 && upload.status !== 201 is the failure test
StatusOk(status) == status = 200 \/ status = 201
\* { media_id: upload.data.id || upload.data.media_id } as JSON.stringify
\* sends it: a key whose value is undefined is left out
MediaRef(body) ==
  IF Or(body.id, body.media_id) = Undefined THEN "none" ELSE "media_id"
\* while (Date.now() - startTime < maxWaitMs)
WithinWait(e) == e < maxWaitMs
\* completed.response.world_id || completed.response.id
ResolveWorldId(resp) == Or(resp.world_id, resp.id)
\* a variant of ResolveWorldIdOpt that prefers response.id
ResolveWorldIdOptIdFirst(resp) ==
  IF resp.present THEN Or(resp.id, resp.world_id) ELSE Undefined
\* statusData.response?.world_id || statusData.response?.id
ResolveWorldIdOpt(resp) ==
  IF resp.present THEN Or(resp.world_id, resp.id) ELSE Undefined
\* result.data.metadata?.progress_pct || 0
CliProgress(pct) == IF pct # <<>> /\ pct[1] # 0 THEN pct[1] ELSE 0

NoPayload == [kind |-> "none", images |-> <<>>]
NoReq ==
  [images |-> <<>>, layoutMode |-> "auto", inputType |-> "images",
   video |-> FALSE, panorama |-> FALSE]

VARIABLES
  variant,      \* which program runs
  pc,           \* where the workflow instance is
  credsExist,   \* cli: the credentials file exists
  cliMode,      \* cli: mode after parsing argv
  inputs,       \* cli: input / inputs after parsing argv
  exitCode,     \* cli: <<>> while running, then <<code>>
  file,         \* cli: <<>> or <<the result written to tours/<name>.json>>
  apiKeySet,    \* web: WORLDLABS_API_KEY is set on the server
  step,         \* web: STEPS
  images,       \* web: selected photos, each its direction ("none" for null)
  layoutMode,   \* web3: "auto" | "direction"
  inputType,    \* web3: "images" | "video" | "panorama"
  video,        \* web3: a video is selected
  panorama,     \* web3: a panorama is selected
  progress,     \* web: progress state; cli: the percentage last printed
  result,       \* web: <<>> for null or <<result>>
  error,        \* web: error state; cli: the error printed ("none" for null)
  worlds,       \* web3: the gallery
  name,         \* web: the display name typed in, a string
  mode,         \* web: quality mode, "standard" | "draft"
  req,          \* web: body of the POST /api/generate being handled
  idx,          \* loop index i of the upload loop (1-based)
  uploaded,     \* the images / uploadedImages list built by the upload loop
  uploadLog,    \* indexes of the inputs an upload request was sent for
  submitted,    \* <<>> or <<world_prompt sent with POST worlds/generate>>
  uploadStatus, \* <<>> or <<status code of the last answer to an upload>>
  submitStatus, \* <<>> or <<status code of the answer to POST worlds/generate>>,
                \* until the poll loop starts
  worldLog,     \* web3: the answers to the lookups of /api/world of this instance
  lastWait,     \* <<>> or <<ms of the last wait of the poll loop>>
  answer,       \* <<>> or <<what an endpoint did with the last request a client
                \* sent it directly>>
  operationId,  \* operation id the poll loop uses
  statusData,   \* the last answer to a status query
  elapsed,      \* cli: Date.now() - startTime in pollOperation
  capturedProgress \* web: the progress value the running handleGenerate closed over

vars ==
  <<variant, pc, credsExist, cliMode, inputs, exitCode, file, apiKeySet, step,
    images, layoutMode, inputType, video, panorama, progress, result, error,
    worlds, name, mode, req, idx, uploaded, uploadLog, uploadStatus, submitStatus, worldLog, lastWait, answer,
    submitted, operationId, statusData, elapsed, capturedProgress>>

cliVars == <<credsExist, cliMode, inputs>>
uiVars ==
  <<step, images, layoutMode, inputType, video, panorama, result, worlds, name, mode, req,
    capturedProgress>>
envVars == <<variant, apiKeySet>>

\* nothing has run yet: the useState initial values, no request sent
InitState ==
  /\ pc = "idle"
  /\ exitCode = <<>>
  /\ file = <<>>
  /\ step = "upload"
  /\ images = <<>>
  /\ layoutMode = "auto"
  /\ inputType = "images"
  /\ video = FALSE
  /\ panorama = FALSE
  /\ progress = 0
  /\ result = <<>>
  /\ error = "none"
  /\ worlds = <<>>
  /\ name = Empty
  /\ mode = "standard"
  /\ req = NoReq
  /\ idx = 1
  /\ uploaded = <<>>
  /\ uploadLog = <<>>
  /\ uploadStatus = <<>>
  /\ submitStatus = <<>>
  /\ worldLog = <<>>
  /\ lastWait = <<>>
  /\ answer = <<>>
  /\ submitted = <<>>
  /\ operationId = Undefined
  /\ statusData = NoStatus
  /\ elapsed = 0
  /\ capturedProgress = 0

Init ==
  /\ variant \in Variants
  /\ \/ /\ variant = "cli"
        /\ credsExist \in BOOLEAN
        /\ cliMode \in CliModes
        /\ inputs \in CliInputs(cliMode)
        /\ apiKeySet = TRUE
     \/ /\ variant \in WebVariants
        /\ credsExist = TRUE
        /\ cliMode = "none"
        /\ inputs = <<>>
        /\ apiKeySet \in BOOLEAN
  /\ InitState

(***************************************************************************)
(* Decisions both the script and the pages take.                           *)
(***************************************************************************)
\* a variant of Failed that never looks at the error
FailedNever(sd) == FALSE
\* if (result.data.error) / if (statusData.error), tested on a done status
Failed(sd) == sd.error
\* a variant of IsDone that takes every answer with a JSON status for done
IsDoneAnyStatus(sd) == sd.k \in {"done", "pending"}
\* if (result.data.done) / if (statusData.done)
IsDone(sd) == sd.k = "done"
\* a variant of Ended in which the poll loop is not left
EndedInLoop == "sleep"
\* where the program is once its workflow has ended: process.exit, the return
\* of main, completed = true, or the catch of handleGenerate
Ended == "final"
\* a variant of AfterUpload that submits once the first input is done
AfterUploadFirstOnly(i, n) == "submit"
\* the loop over the inputs goes on with i + 1, or the submission follows
AfterUpload(i, n) == IF i = n THEN "submit" ELSE "upload"

(***************************************************************************)
(* generate-3d-tour.js                                                     *)
(***************************************************************************)
\* the catch of main (console.error, process.exit(1)) and the other exits
CliExit(code, err) ==
  /\ pc' = Ended
  /\ exitCode' = <<code>>
  /\ error' = err
  /\ elapsed' = 0

\* main up to its first await: loadApiKey, the argv checks and the dispatch
main ==
  /\ variant = "cli"
  /\ pc = "idle"
  /\ IF ~credsExist
       THEN CliExit(1, "MissingCredentials") /\ UNCHANGED idx
       ELSE IF cliMode = "none"
         THEN CliExit(1, "NoInput") /\ UNCHANGED idx
         ELSE /\ pc' = IF cliMode = "text" \/ Len(inputs) = 0 THEN "submit" ELSE "upload"
              /\ idx' = 1
              /\ UNCHANGED <<exitCode, error, elapsed>>
  /\ UNCHANGED <<envVars, cliVars, uiVars, submitStatus, worldLog, lastWait, answer, file, progress, uploaded, uploadLog,
                 uploadStatus, submitted, operationId, statusData>>

\* one iteration of the loop of generateFromMultiImage, or the one media
\* reference of generateFromImage / generateFromVideo
uploadFileRequest ==
  /\ variant = "cli"
  /\ pc = "upload"
  /\ LET az == IF cliMode = "multi" THEN <<Azimuth(idx - 1, Len(inputs))>> ELSE <<>>
     IN IF inputs[idx] = "http"
          THEN /\ uploaded' = Append(uploaded, [ref |-> "url", azimuth |-> az])
               /\ idx' = idx + 1
               /\ pc' = AfterUpload(idx, Len(inputs))
               /\ UNCHANGED <<uploadLog, uploadStatus, exitCode, error, elapsed>>
          ELSE /\ uploadLog' = Append(uploadLog, idx)
               /\ \E status \in UploadStatuses, body \in UploadBodies(Len(inputs)) :
                    /\ uploadStatus' = <<status>>
                    /\ IF StatusOk(status)
                         THEN /\ uploaded' =
                                   Append(uploaded, [ref |-> MediaRef(body), azimuth |-> az])
                              /\ idx' = idx + 1
                              /\ pc' = AfterUpload(idx, Len(inputs))
                              /\ UNCHANGED <<exitCode, error, elapsed>>
                         ELSE /\ CliExit(1, "UploadFailed")
                              /\ UNCHANGED <<uploaded, idx>>
  /\ UNCHANGED <<envVars, cliVars, uiVars, submitStatus, worldLog, lastWait, answer, file, progress, submitted, operationId,
                 statusData>>

\* POST /worlds/generate of generateFromText/Image/MultiImage/Video, and main
\* up to the call of pollOperation
generateSubmit ==
  /\ variant = "cli"
  /\ pc = "submit"
  /\ submitted' = <<[kind |-> cliMode, images |-> uploaded]>>
  /\ \E r \in SubmitReplies :
       /\ submitStatus' = <<r.status>>
       /\ IF StatusOk(r.status)
            THEN /\ operationId' = IF r.body = "op" THEN OpId ELSE Undefined
                 /\ pc' = "poll_top"
                 /\ elapsed' = 0
                 /\ UNCHANGED <<exitCode, error>>
            ELSE /\ CliExit(1, "SubmissionFailed")
                 /\ UNCHANGED operationId
  /\ UNCHANGED <<envVars, cliVars, uiVars, worldLog, lastWait, answer, file, progress, idx, uploaded, uploadLog,
                 uploadStatus, statusData>>

\* pollOperation: the loop condition, then the status request goes out
pollOperation ==
  /\ variant = "cli"
  /\ pc = "poll_top"
  /\ IF WithinWait(elapsed)
       THEN pc' = "status_wait" /\ UNCHANGED <<exitCode, error, elapsed>>
       ELSE CliExit(1, "GenerationTimedOut")
  /\ submitStatus' = <<>>
  /\ UNCHANGED <<envVars, cliVars, uiVars, worldLog, lastWait, answer, file, progress, idx, uploaded, uploadLog,
                 uploadStatus, submitted, operationId, statusData>>

\* the result main writes to tours/<name>.json
ResultFile(resp) ==
  [worldId |-> ResolveWorldId(resp), viewUrl |-> DefaultViewUrl(ResolveWorldId(resp))]

\* pollOperation: the status answer arrives after d ms; on done without error
\* main writes the result file when the status has a response
pollResponse ==
  /\ variant = "cli"
  /\ pc = "status_wait"
  /\ \E d \in {0, SlowMs}, s \in StatusReplies :
       /\ statusData' = s
       /\ IF IsDone(s)
            THEN IF Failed(s)
                   THEN /\ CliExit(1, "GenerationFailed")
                        /\ UNCHANGED <<file, progress>>
                   ELSE /\ CliExit(0, "none")
                        /\ file' = IF s.resp.present THEN <<ResultFile(s.resp)>> ELSE file
                        /\ UNCHANGED progress
            ELSE /\ progress' = CliProgress(s.pct)
                 /\ pc' = "sleep"
                 /\ elapsed' = elapsed + d
                 /\ UNCHANGED <<exitCode, error, file>>
  /\ UNCHANGED <<envVars, cliVars, uiVars, submitStatus, worldLog, lastWait, answer, idx, uploaded, uploadLog, uploadStatus,
                 submitted, operationId>>

\* a variant of PollWait that backs off as the time goes by
PollWaitBackoff(v) ==
  IF v = "cli" THEN pollInterval + elapsed ELSE pagePollInterval + progress
\* the delay of the setTimeout of the poll loop
PollWait(v) == IF v = "cli" THEN pollInterval ELSE pagePollInterval

\* pollOperation: await new Promise(r => setTimeout(r, pollInterval)); the
\* result of this iteration goes out of scope
pollSleep ==
  /\ variant = "cli"
  /\ pc = "sleep"
  /\ elapsed' = elapsed + PollWait(variant)
  /\ lastWait' = <<PollWait(variant)>>
  /\ statusData' = NoStatus
  /\ pc' = "poll_top"
  /\ UNCHANGED <<envVars, cliVars, uiVars, submitStatus, worldLog, answer, exitCode, file, progress, error, idx,
                 uploaded, uploadLog, uploadStatus, submitted, operationId>>

CliNext ==
  \/ main
  \/ uploadFileRequest
  \/ generateSubmit
  \/ pollOperation
  \/ pollResponse
  \/ pollSleep

(***************************************************************************)
(* pages/index.js: the state of the pages and what the user can do in the  *)
(* upload step.                                                            *)
(***************************************************************************)
DIRECTIONS == {"front", "right", "back", "left"}
\* const maxImages = layoutMode === 'auto' ? 8 : 4
maxImages == IF layoutMode = "auto" THEN AutoMaxImages ELSE DirectionMaxImages
\* s.slice(0, n)
Take(s, n) == SubSeq(s, 1, IF Len(s) < n THEN Len(s) ELSE n)
\* s.filter((_, i) => i !== k)
RemoveAt(s, k) == SubSeq(s, 1, k - 1) \o SubSeq(s, k + 1, Len(s))

\* the bound on the photos selected, for the page that runs
MaxSelect == IF variant = "web3" THEN MaxUiImages ELSE MaxPhotos
\* the upload card, with the Generate button, is rendered at the upload step
AtUploadStep == variant \in WebVariants /\ step = "upload"
flowVars ==
  <<pc, exitCode, file, progress, error, req, idx, uploaded, uploadLog, uploadStatus,
    submitStatus, worldLog, lastWait, answer, submitted,
    operationId, statusData, elapsed, capturedProgress>>

\* handleFiles: the user picks k photos
handleFiles ==
  /\ AtUploadStep
  /\ variant = "web3" => inputType = "images"
  /\ \E k \in 1..MaxSelect :
       /\ Len(images) + k <= MaxSelect
       /\ LET combined == images \o [j \in 1..k |-> "none"]
          IN images' = IF variant = "web3" THEN Take(combined, maxImages) ELSE combined
  /\ UNCHANGED <<envVars, cliVars, flowVars, step, layoutMode, inputType, video,
                 panorama, result, worlds, name, mode>>

\* handleFiles of the second page with up to MaxLayoutImages photos
handleManyFiles ==
  /\ AtUploadStep
  /\ variant = "web3" /\ inputType = "images"
  /\ \E k \in 1..MaxLayoutImages :
       /\ Len(images) + k <= MaxLayoutImages
       /\ LET combined == images \o [j \in 1..k |-> "none"]
          IN images' = Take(combined, maxImages)
  /\ UNCHANGED <<envVars, cliVars, flowVars, step, layoutMode, inputType, video,
                 panorama, result, worlds, name, mode>>

removeImage ==
  /\ AtUploadStep
  /\ variant = "web3" => inputType = "images"
  /\ \E k \in 1..Len(images) : images' = RemoveAt(images, k)
  /\ UNCHANGED <<envVars, cliVars, flowVars, step, layoutMode, inputType, video,
                 panorama, result, worlds, name, mode>>

\* the direction select is rendered in direction control only
setImageDirection ==
  /\ AtUploadStep
  /\ variant = "web3" /\ inputType = "images" /\ layoutMode = "direction"
  /\ \E k \in 1..Len(images), dir \in DIRECTIONS \cup {"none"} :
       images' = [images EXCEPT ![k] = dir]
  /\ UNCHANGED <<envVars, cliVars, flowVars, step, layoutMode, inputType, video,
                 panorama, result, worlds, name, mode>>

setLayoutMode ==
  /\ AtUploadStep
  /\ variant = "web3" /\ inputType = "images"
  /\ \E m \in {"auto", "direction"} : layoutMode' = m
  /\ UNCHANGED <<envVars, cliVars, flowVars, step, images, inputType, video,
                 panorama, result, worlds, name, mode>>

\* the selected media the upload card does not show under input type t
HiddenMedia(t) ==
  (IF t # "images" THEN Len(images) ELSE 0)
  + (IF t # "video" /\ video THEN 1 ELSE 0)
  + (IF t # "panorama" /\ panorama THEN 1 ELSE 0)

setInputType ==
  /\ AtUploadStep
  /\ variant = "web3"
  /\ \E t \in {"images", "video", "panorama"} :
       /\ HiddenMedia(t) <= MaxHiddenMedia
       /\ inputType' = t
  /\ UNCHANGED <<envVars, cliVars, flowVars, step, images, layoutMode, video,
                 panorama, result, worlds, name, mode>>

\* handleVideoFile, and the Remove button (setVideo(null))
handleVideoFile ==
  /\ AtUploadStep
  /\ variant = "web3" /\ inputType = "video"
  /\ video' = ~video
  /\ UNCHANGED <<envVars, cliVars, flowVars, step, images, layoutMode, inputType,
                 panorama, result, worlds, name, mode>>

\* handlePanoFile, and the Remove button (setPanorama(null))
handlePanoFile ==
  /\ AtUploadStep
  /\ variant = "web3" /\ inputType = "panorama"
  /\ panorama' = ~panorama
  /\ UNCHANGED <<envVars, cliVars, flowVars, step, images, layoutMode, inputType,
                 video, result, worlds, name, mode>>

\* a variant of canGenerate that does not look at the directions
canGenerateAnyDirection ==
  IF variant = "web3"
    THEN IF inputType = "video" THEN video
         ELSE IF inputType = "panorama" THEN panorama
         ELSE Len(images) > 0
    ELSE Len(images) > 0
\* display names a user types
Names == {Empty, <<"n">>}
\* the name field of the upload card
setName ==
  /\ AtUploadStep
  /\ \E n \in Names : name' = n
  /\ UNCHANGED <<envVars, cliVars, flowVars, step, images, layoutMode, inputType,
                 video, panorama, result, worlds, mode>>

\* the quality select of the upload card
setMode ==
  /\ AtUploadStep
  /\ \E m \in {"standard", "draft"} : mode' = m
  /\ UNCHANGED <<envVars, cliVars, flowVars, step, images, layoutMode, inputType,
                 video, panorama, result, worlds, name>>

\* canGenerate of the second page; the first page disables the button when
\* images.length === 0
canGenerate ==
  IF variant = "web3"
    THEN IF inputType = "video" THEN video
         ELSE IF inputType = "panorama" THEN panorama
         ELSE IF Len(images) = 0 THEN FALSE
         ELSE IF layoutMode = "direction" /\ Len(images) > 1
           THEN \A k \in 1..Len(images) : images[k] # "none"
           ELSE TRUE
    ELSE Len(images) > 0

(***************************************************************************)
(* pages/api/generate.js: the three generations of the generate handler.   *)
(***************************************************************************)
\* a variant of directions with left and right exchanged
directionsMirrored == [front |-> 0, right |-> 270, back |-> 180, left |-> 90]
directions == [front |-> 0, right |-> 90, back |-> 180, left |-> 270]
\* azimuth: img.direction ? directions[img.direction] : 0 ; a direction the
\* table does not hold gives undefined, and JSON.stringify drops the key
DirectionAzimuth(d) ==
  IF d = "none" THEN <<0>>
  ELSE IF d \in DOMAIN directions THEN <<directions[d]>> ELSE <<>>

\* the checks of a handler before its first await: "ok" or the error it answers
HandlerCheck(v, r) ==
  IF ~apiKeySet THEN "MissingCredentials"
  ELSE IF v = "web3" /\ r.inputType = "video"
    THEN IF r.video THEN "ok" ELSE "NoInput"
  ELSE IF v = "web3" /\ r.inputType = "panorama"
    THEN IF r.panorama THEN "ok" ELSE "NoInput"
  ELSE IF Len(r.images) = 0 THEN "NoInput" ELSE "ok"

\* world_prompt of the upload handler (generate.js:108)
WorldPromptV1(ups) ==
  IF Len(ups) = 1
    THEN [kind |-> "image", images |-> <<[ref |-> ups[1].ref, azimuth |-> <<>>]>>]
    ELSE [kind |-> "multi", images |-> ups]

\* world_prompt of the base64 handler (generate.js:176)
WorldPromptV2(r) ==
  LET n == Len(r.images)
  IN IF n = 1
       THEN [kind |-> "image", images |-> <<[ref |-> "data_base64", azimuth |-> <<>>]>>]
       ELSE [kind |-> "multi",
             images |-> [j \in 1..n |->
                           [ref |-> "data_base64", azimuth |-> <<Azimuth(j - 1, n)>>]]]

\* world_prompt of the layout-aware handler (generate.js:259)
WorldPromptV3(r) ==
  LET n == Len(r.images)
  IN IF r.inputType = "video" THEN [kind |-> "video", images |-> <<>>]
     ELSE IF r.inputType = "panorama" THEN [kind |-> "panorama", images |-> <<>>]
     ELSE IF n = 1
       THEN [kind |-> "image", images |-> <<[ref |-> "data_base64", azimuth |-> <<>>]>>]
     ELSE IF r.layoutMode = "auto"
       THEN [kind |-> "multi",
             images |-> [j \in 1..n |-> [ref |-> "data_base64", azimuth |-> <<>>]]]
       ELSE [kind |-> "multi",
             images |-> [j \in 1..n |->
                           [ref |-> "data_base64",
                            azimuth |-> DirectionAzimuth(r.images[j])]]]

\* a variant of ResponseOk that takes every answer for ok
ResponseOkAlways(status) == status >= 200
\* response.ok of fetch
ResponseOk(status) == status >= 200 /\ status <= 299

\* what a handler answers to the vendor's reply to POST worlds/generate: "ok",
\* or the error of its 500 answer.  The upload handler tests the status code;
\* apiFetch parses the body first and then tests response.ok
SubmitOutcome(v, r) ==
  IF v = "web1"
    THEN IF StatusOk(r.status) THEN "ok" ELSE "SubmissionFailed"
    ELSE IF r.body = "text" THEN "MalformedResponse"
         ELSE IF ResponseOk(r.status) THEN "ok" ELSE "SubmissionFailed"

(***************************************************************************)
(* pages/index.js: handleGenerate and reset.                               *)
(***************************************************************************)
\* a variant of WebFail that does not set the error
WebFailNoError(err) ==
  /\ pc' = Ended
  /\ step' = "error"
  /\ error' = "none"
\* the catch of handleGenerate: setError, setStep(STEPS.ERROR)
WebFail(err) ==
  /\ pc' = Ended
  /\ step' = "error"
  /\ error' = err

\* the body handleGenerate posts
RequestBody ==
  IF variant = "web3"
    THEN [images |-> IF inputType = "images" THEN images ELSE <<>>,
          layoutMode |-> layoutMode, inputType |-> inputType,
          video |-> (inputType = "video" /\ video),
          panorama |-> (inputType = "panorama" /\ panorama)]
    ELSE [NoReq EXCEPT !.images = images]

\* the click on Generate: handleGenerate up to its fetch, and the handler up to
\* its first await
handleGenerate ==
  /\ AtUploadStep
  /\ canGenerate
  /\ Len(worlds) < MaxWorlds
  /\ progress' = 0
  /\ capturedProgress' = progress
  /\ req' = RequestBody
  /\ idx' = 1
  /\ LET chk == HandlerCheck(variant, RequestBody)
     IN IF chk = "ok"
          THEN /\ step' = "processing"
               /\ error' = "none"
               /\ pc' = IF variant = "web1" THEN "upload" ELSE "submit"
          ELSE WebFail(chk)
  /\ UNCHANGED <<envVars, cliVars, submitStatus, worldLog, lastWait, answer, exitCode, file, images, layoutMode, inputType,
                 video, panorama, result, worlds, name, mode, uploaded, uploadLog, uploadStatus, submitted,
                 operationId, statusData, elapsed>>

\* one iteration of the upload loop of the upload handler (generate.js:91)
uploadMedia ==
  /\ variant = "web1"
  /\ pc = "upload"
  /\ uploadLog' = Append(uploadLog, idx)
  /\ \E status \in UploadStatuses, body \in UploadBodies(Len(req.images)) :
       /\ uploadStatus' = <<status>>
       /\ IF StatusOk(status)
            THEN /\ uploaded' =
                      Append(uploaded,
                             [ref |-> MediaRef(body),
                              azimuth |-> <<Azimuth(idx - 1, Len(req.images))>>])
                 /\ idx' = idx + 1
                 /\ pc' = AfterUpload(idx, Len(req.images))
                 /\ UNCHANGED <<step, error>>
            ELSE /\ WebFail("UploadFailed")
                 /\ UNCHANGED <<uploaded, idx>>
  /\ UNCHANGED <<envVars, cliVars, submitStatus, worldLog, lastWait, answer, exitCode, file, images, layoutMode, inputType,
                 video, panorama, progress, result, worlds, name, mode, req, submitted,
                 operationId, statusData, elapsed, capturedProgress>>

\* direction values a request body can hold: the four of the table, null, and
\* one the table does not have
ApiDirections == DIRECTIONS \cup {"none", "up"}
\* the JSON bodies a client can post to /api/generate
ApiBodies ==
  [images : SeqsUpTo(ApiDirections, MaxApiImages),
   layoutMode : {"auto", "direction"},
   inputType : {"images", "video", "panorama"},
   video : BOOLEAN, panorama : BOOLEAN]

\* POST /api/generate with a body the form of the page did not build: the
\* handler destructures req.body as it comes, up to its first await
apiPost ==
  /\ variant = "web3"
  /\ pc = "idle"
  /\ \E body \in ApiBodies :
       /\ req' = body
       /\ IF HandlerCheck(variant, body) = "ok"
            THEN /\ step' = "processing"
                 /\ error' = "none"
                 /\ pc' = "submit"
            ELSE WebFail(HandlerCheck(variant, body))
  /\ UNCHANGED <<envVars, cliVars, submitStatus, worldLog, lastWait, answer, exitCode, file, images,
                 layoutMode, inputType, video, panorama, progress, result, worlds, name, mode,
                 idx, uploaded, uploadLog, uploadStatus, submitted, operationId,
                 statusData, elapsed, capturedProgress>>

\* the body has the input its input type asks for
HasInput(v, r) ==
  IF v = "web3" /\ r.inputType = "video" THEN r.video
  ELSE IF v = "web3" /\ r.inputType = "panorama" THEN r.panorama
  ELSE Len(r.images) > 0
\* HTTP methods a client can use
Methods == {"GET", "POST", "PUT"}
\* a variant of GenerateEndpoint that looks at the API key before the method
GenerateEndpointKeyFirst(v, method, body) ==
  IF HandlerCheck(v, body) = "MissingCredentials" THEN 500
  ELSE IF method # "POST" THEN 405
  ELSE IF HandlerCheck(v, body) = "NoInput" THEN 400
  ELSE 0
\* the status a generate handler answers with before its first vendor request,
\* or 0 when it goes on to the vendor
GenerateEndpoint(v, method, body) ==
  IF method # "POST" THEN 405
  ELSE IF HandlerCheck(v, body) = "MissingCredentials" THEN 500
  ELSE IF HandlerCheck(v, body) = "NoInput" THEN 400
  ELSE 0
\* the same for a status handler, for the operationId of the query string
StatusEndpoint(method, opId) ==
  IF method # "GET" THEN 405
  ELSE IF ~Truthy(opId) THEN 400
  ELSE 0

\* a client sends a request of any method and body to /api/generate: the
\* handler up to its first await
generateRequest ==
  /\ variant \in WebVariants
  /\ pc = "idle"
  /\ \E method \in Methods, body \in ApiBodies :
       LET code == GenerateEndpoint(variant, method, body)
       IN /\ req' = body
          /\ answer' = <<[endpoint |-> "generate", method |-> method,
                          input |-> HasInput(variant, body),
                          status |-> code]>>
          /\ IF code = 0
               THEN /\ step' = "processing"
                    /\ error' = "none"
                    /\ pc' = IF variant = "web1" THEN "upload" ELSE "submit"
               ELSE WebFail(IF code = 405 THEN "MethodNotAllowed"
                            ELSE HandlerCheck(variant, body))
  /\ idx' = 1
  /\ UNCHANGED <<envVars, cliVars, submitStatus, worldLog, lastWait, exitCode, file,
                 images, layoutMode, inputType, video, panorama, progress, result,
                 worlds, name, mode, uploaded, uploadLog, uploadStatus, submitted, operationId,
                 statusData, elapsed, capturedProgress>>

\* a client sends a request of any method to /api/status: the handler up to
\* its vendor request
statusRequest ==
  /\ variant \in WebVariants
  /\ pc = "idle"
  /\ \E method \in Methods, opId \in {Undefined, Empty, OpId} :
       answer' = <<[endpoint |-> "status", method |-> method,
                    input |-> Truthy(opId),
                    status |-> StatusEndpoint(method, opId)]>>
  /\ UNCHANGED <<envVars, cliVars, uiVars, pc, exitCode, file, progress, error, idx,
                 uploaded, uploadLog, uploadStatus, submitStatus, worldLog, lastWait,
                 submitted, operationId, statusData, elapsed>>

\* POST worlds/generate by the handler, its answer to the page, and
\* handleGenerate up to the first sleep of its poll loop
handlerSubmit ==
  /\ variant \in WebVariants
  /\ pc = "submit"
  /\ submitted' =
       <<CASE variant = "web1" -> WorldPromptV1(uploaded)
           [] variant = "web2" -> WorldPromptV2(req)
           [] OTHER -> WorldPromptV3(req)>>
  /\ \E r \in SubmitReplies :
       /\ submitStatus' = <<r.status>>
       /\ IF SubmitOutcome(variant, r) = "ok"
            THEN /\ operationId' = IF r.body = "op" THEN OpId ELSE Undefined
                 /\ pc' = "sleep"
                 /\ UNCHANGED <<step, error>>
            ELSE /\ WebFail(SubmitOutcome(variant, r))
                 /\ UNCHANGED operationId
  /\ UNCHANGED <<envVars, cliVars, worldLog, lastWait, answer, exitCode, file, images, layoutMode, inputType,
                 video, panorama, progress, result, worlds, name, mode, req, idx, uploaded,
                 uploadLog, uploadStatus, statusData, elapsed, capturedProgress>>

\* await new Promise(r => setTimeout(r, 3000)), then the status request goes out
statusSleep ==
  /\ variant \in WebVariants
  /\ pc = "sleep"
  /\ pc' = "status_wait"
  /\ lastWait' = <<PollWait(variant)>>
  /\ statusData' = NoStatus
  /\ submitStatus' = <<>>
  /\ UNCHANGED <<envVars, cliVars, uiVars, worldLog, answer, exitCode, file, progress, error, idx,
                 uploaded, uploadLog, uploadStatus, submitted, operationId, elapsed>>

\* what /api/status hands to the page: part_000 passes the vendor's JSON on
\* (or {raw}); generate.js:352 answers {error} to a non-ok or unparsable
\* vendor answer.  Neither answer has done
StatusView(v, s) ==
  IF s.k \in {"httperr", "text"} THEN [s EXCEPT !.error = (v # "web1")] ELSE s

\* statusData.metadata?.progress_pct || progress + 5          (first page)
\* statusData.metadata?.progress_pct || Math.min(progress + 3, 95)  (second)
WebProgress(v, pct, prog) ==
  IF pct # <<>> /\ pct[1] # 0 THEN pct[1]
  ELSE IF v = "web3" THEN (IF prog + 3 < 95 THEN prog + 3 ELSE 95)
  ELSE prog + 5

\* the percentage the user sees: Math.min(Math.round(progress), 100) in the
\* pages, the number itself on the terminal
Displayed(v, prog) == IF v = "cli" THEN prog ELSE IF prog < 100 THEN prog ELSE 100

\* the result object of the pages
NewResult(worldId, viewUrl) == [worldId |-> worldId, viewUrl |-> viewUrl]

\* the status answer arrives: the body of the poll loop
statusResponse ==
  /\ variant \in WebVariants
  /\ pc = "status_wait"
  /\ \E s \in StatusReplies :
       LET sd == StatusView(variant, s)
           worldId == ResolveWorldIdOpt(sd.resp)
       IN /\ statusData' = sd
          /\ IF IsDone(sd)
               THEN IF Failed(sd)
                      THEN /\ WebFail("GenerationFailed")
                           /\ UNCHANGED <<progress, result>>
                      ELSE IF variant = "web3"
                        THEN /\ pc' = "world_wait"
                             /\ UNCHANGED <<step, error, progress, result>>
                        ELSE /\ result' = <<NewResult(worldId, DefaultViewUrl(worldId))>>
                             /\ step' = "done"
                             /\ pc' = Ended
                             /\ UNCHANGED <<error, progress>>
               ELSE /\ progress' = WebProgress(variant, sd.pct, capturedProgress)
                    /\ pc' = "sleep"
                    /\ UNCHANGED <<step, error, result>>
  /\ UNCHANGED <<envVars, cliVars, submitStatus, worldLog, lastWait, answer, exitCode, file, images, layoutMode, inputType,
                 video, panorama, worlds, name, mode, req, idx, uploaded, uploadLog, uploadStatus, submitted,
                 operationId, elapsed, capturedProgress>>

\* a variant of ResolveViewUrl that takes the vendor URL whatever the lookup gave
ResolveViewUrlVendorOnly(worldId, w) == MarbleUrl
\* viewUrl after the lookup of /api/world
ResolveViewUrl(worldId, w) ==
  IF w = "url" THEN MarbleUrl ELSE DefaultViewUrl(worldId)

\* a variant of setWorlds that forgets the new result
setWorldsKeepsPrev(newResult, prev) == prev
\* setWorlds(prev => [newResult, ...prev])
setWorlds(newResult, prev) == <<newResult>> \o prev

\* the answer of /api/world arrives (second page): setResult, setWorlds, setStep
worldResponse ==
  /\ variant = "web3"
  /\ pc = "world_wait"
  /\ \E w \in WorldReplies :
       LET worldId == ResolveWorldIdOpt(statusData.resp)
           newResult == NewResult(worldId, ResolveViewUrl(worldId, w))
       IN /\ worldLog' = Append(worldLog, w)
          /\ result' = <<newResult>>
          /\ worlds' = setWorlds(newResult, worlds)
  /\ step' = "done"
  /\ pc' = Ended
  /\ UNCHANGED <<envVars, cliVars, submitStatus, lastWait, answer, exitCode, file, images, layoutMode, inputType, name, mode,
                 video, panorama, progress, error, req, idx, uploaded, uploadLog, uploadStatus,
                 submitted, operationId, statusData, elapsed, capturedProgress>>

\* a variant of CanReset in which a reset button is also rendered while
\* the tour is processing
CanResetWhileProcessing == variant \in WebVariants /\ step # "upload"
\* the buttons that call reset (Create Another Tour / Try Again) are rendered
\* at the done and the error step
CanReset == variant \in WebVariants /\ step \in {"done", "error"}

\* a variant of ClearedName that leaves the name in the field
ClearedNameKept == name
\* setName('') of reset
ClearedName == Empty

\* reset sets the state of the page; a handleGenerate that has ended leaves
\* its locals behind, one that has not goes on where it is
reset ==
  /\ CanReset
  /\ step' = "upload"
  /\ images' = <<>>
  /\ name' = ClearedName
  /\ progress' = 0
  /\ result' = <<>>
  /\ error' = "none"
  /\ video' = FALSE
  /\ panorama' = FALSE
  /\ IF pc = Ended
       THEN /\ pc' = "idle"
            /\ req' = NoReq
            /\ idx' = 1
            /\ uploaded' = <<>>
            /\ uploadLog' = <<>>
            /\ uploadStatus' = <<>>
            /\ submitStatus' = <<>>
            /\ worldLog' = <<>>
            /\ lastWait' = <<>>
            /\ answer' = <<>>
            /\ submitted' = <<>>
            /\ operationId' = Undefined
            /\ statusData' = NoStatus
            /\ capturedProgress' = 0
       ELSE UNCHANGED <<pc, req, idx, uploaded, uploadLog, uploadStatus, submitStatus,
                        worldLog, lastWait, answer, submitted, operationId, statusData,
                        capturedProgress>>
  /\ UNCHANGED <<envVars, cliVars, exitCode, file, layoutMode, inputType, worlds, mode,
                 elapsed>>

WebNext ==
  \/ handleGenerate
  \/ uploadMedia
  \/ handlerSubmit
  \/ statusSleep
  \/ statusResponse
  \/ worldResponse
  \/ reset

UiNext ==
  \/ handleFiles
  \/ removeImage
  \/ setImageDirection
  \/ setLayoutMode
  \/ setInputType
  \/ handleVideoFile
  \/ handlePanoFile

Next == CliNext \/ UiNext \/ WebNext

Spec == Init /\ [][Next]_vars

\* the steps the program takes by itself: every request is answered and every
\* timer fires.  The user's clicks (handleGenerate, reset, the edits of the
\* upload step) are under no obligation
WorkflowStep ==
  \/ CliNext
  \/ uploadMedia
  \/ handlerSubmit
  \/ statusSleep
  \/ statusResponse
  \/ worldResponse

FairSpec == Spec /\ WF_vars(WorkflowStep)

(***************************************************************************)
(* The script on image URLs only: no upload, so the number of images is    *)
(* bounded by MaxAzimuthImages alone.                                      *)
(***************************************************************************)
AzInit ==
  /\ variant = "cli"
  /\ credsExist = TRUE
  /\ cliMode = "multi"
  /\ inputs \in {[j \in 1..n |-> "http"] : n \in 1..MaxAzimuthImages}
  /\ apiKeySet = TRUE
  /\ InitState

AzNext == main \/ uploadFileRequest \/ generateSubmit

AzSpec == AzInit /\ [][AzNext]_vars

(***************************************************************************)
(* The layout-aware generate handler called with any JSON body.            *)
(***************************************************************************)
HandlerInit == Init /\ variant = "web3"

HandlerNext == apiPost \/ handlerSubmit

HandlerSpec == HandlerInit /\ [][HandlerNext]_vars

(***************************************************************************)
(* The upload card of the second page with more photos, up to the          *)
(* submission of the request.                                              *)
(***************************************************************************)
LayoutInit == Init /\ variant = "web3"

LayoutNext ==
  \/ handleManyFiles
  \/ removeImage
  \/ setImageDirection
  \/ setLayoutMode
  \/ handleGenerate
  \/ handlerSubmit

LayoutSpec == LayoutInit /\ [][LayoutNext]_vars

(***************************************************************************)
(* The endpoints called with any method and any body, up to the            *)
(* submission.                                                             *)
(***************************************************************************)
EndpointInit == Init /\ variant \in WebVariants

EndpointNext ==
  \/ generateRequest
  \/ statusRequest
  \/ uploadMedia
  \/ handlerSubmit

EndpointSpec == EndpointInit /\ [][EndpointNext]_vars

(***************************************************************************)
(* The second page with its name field and its quality select.             *)
(***************************************************************************)
PageInit == Init /\ variant = "web3"

PageNext ==
  \/ setName
  \/ setMode
  \/ handleFiles
  \/ removeImage
  \/ setLayoutMode
  \/ setInputType
  \/ handleVideoFile
  \/ handlePanoFile
  \/ handleGenerate
  \/ handlerSubmit
  \/ statusSleep
  \/ statusResponse
  \/ worldResponse
  \/ reset

PageSpec == PageInit /\ [][PageNext]_vars

(***************************************************************************)
(* The phases of a workflow instance, read off the program's state.        *)
(***************************************************************************)
\* the instance has ended: the script has exited, the page shows done or error
Terminal ==
  IF variant = "cli" THEN exitCode # <<>> ELSE step \in {"done", "error"}
Outcome ==
  IF error = "none" THEN "Resolved"
  ELSE IF error = "GenerationTimedOut" THEN "TimedOut" ELSE "Failed"
Polling == pc \in {"poll_top", "status_wait", "sleep", "world_wait"}
Phase ==
  IF Terminal THEN Outcome
  ELSE IF pc = "idle" THEN "Idle"
  ELSE IF pc = "upload" THEN "Uploading"
  ELSE IF pc = "submit" THEN "Submitting"
  ELSE IF Polling THEN "Polling"
  ELSE "Ended"
\* the TourResult of the instance, if any: the script's file, the page's result
TourResults == IF variant = "cli" THEN file ELSE result
DoneOk(sd) == sd.k = "done" /\ ~sd.error

(***************************************************************************)
(* C1  Polling beyond the timeout.                                         *)
(***************************************************************************)
C1_NoRequestAfterTimeout ==
  [][(pc' = "status_wait" /\ pc # "status_wait") => elapsed < maxWaitMs]_vars
C1_EndsTimedOut ==
  Polling ~> ((Terminal /\ Outcome = "TimedOut") \/ statusData.k = "done")
\* C1: in every variant, a workflow that is polling and never gets done=true
\* ends in GenerationTimedOut, and no status request goes out once maxWaitMs
\* has elapsed.
C1_TimeoutEveryVariant == C1_NoRequestAfterTimeout /\ C1_EndsTimedOut

(***************************************************************************)
(* C2  A done status with an error.                                        *)
(***************************************************************************)
C2_Inv ==
  (statusData.k = "done" /\ statusData.error) =>
    /\ Terminal /\ pc = "final"
    /\ error = "GenerationFailed"
    /\ file = <<>> /\ result = <<>>
    /\ variant = "cli" => exitCode = <<1>>
    /\ variant \in WebVariants => step = "error"
C2_NoAppend ==
  [][(statusData'.k = "done" /\ statusData'.error) => worlds' = worlds]_vars
\* C2: whenever a status answer has done=true and an error, the workflow has
\* ended in GenerationFailed without a TourResult: the script wrote no file and
\* exited with 1; the page has no result, is at the error step, and the step
\* that received the answer left the worlds list as it was.
C2_GenerationFailed == []C2_Inv /\ C2_NoAppend
\* a page received done=true with an error next to a complete response
C2_Witness ==
  /\ variant = "web3" /\ step = "error"
  /\ statusData.k = "done" /\ statusData.error
  /\ statusData.resp.present /\ statusData.resp.world_id = W1

(***************************************************************************)
(* C3  The resolver on every done status without error.                    *)
(***************************************************************************)
\* C3: for every done status without error, whatever its response, the
\* workflow has a TourResult with a non-empty worldId and a viewUrl that
\* contains the worldId.
C3_ResolverTotal ==
  (Terminal /\ DoneOk(statusData)) =>
    /\ TourResults # <<>>
    /\ Truthy(TourResults[1].worldId)
    /\ Contains(TourResults[1].viewUrl, TourResults[1].worldId)

(***************************************************************************)
(* C4  A rejected upload.                                                  *)
(***************************************************************************)
UploadRejected == uploadStatus # <<>> /\ uploadStatus[1] \notin {200, 201}
\* C4: when an upload was answered with a failure status, the workflow has
\* ended with UploadFailed, each input was uploaded at most once and in order,
\* the rejected upload is the last one sent, and nothing was submitted.
C4_UploadFailedAborts ==
  UploadRejected =>
    /\ Terminal /\ pc = "final"
    /\ error = "UploadFailed"
    /\ submitted = <<>>
    /\ \A a, b \in 1..Len(uploadLog) : a < b => uploadLog[a] < uploadLog[b]
    /\ uploadLog[Len(uploadLog)] = idx
    /\ Len(uploaded) = idx - 1
\* the script: the second upload of three is rejected with 413
C4_Witness ==
  /\ variant = "cli" /\ uploadStatus = <<413>>
  /\ Len(uploadLog) = 2 /\ Len(inputs) = 3

(***************************************************************************)
(* C5  Azimuths when no direction is given.                                *)
(***************************************************************************)
\* a = round(i * 360 / n), rounding half up
IsRound(a, i, n) == 2 * i * 360 - n < 2 * n * a /\ 2 * n * a <= 2 * i * 360 + n
MultiSubmitted == submitted # <<>> /\ submitted[1].kind = "multi"
EvenlySpaced(imgs) ==
  \A j \in 1..Len(imgs) :
    /\ imgs[j].azimuth # <<>>
    /\ IsRound(imgs[j].azimuth[1], j - 1, Len(imgs))
CompassDegrees(d) ==
  CASE d = "front" -> 0 [] d = "right" -> 90 [] d = "back" -> 180 [] d = "left" -> 270
\* C6: in a direction-control submission of two or more images, an image with
\* a compass direction has the azimuth of that direction, wherever it stands
\* in the list.
C6_DirectionAzimuths ==
  (MultiSubmitted /\ variant = "web3" /\ req.layoutMode = "direction") =>
    \A j \in 1..Len(req.images) :
      req.images[j] \in DIRECTIONS =>
        submitted[1].images[j].azimuth = <<CompassDegrees(req.images[j])>>
\* left before front: the azimuths are not in index order
C6_Witness ==
  /\ MultiSubmitted /\ variant = "web3" /\ req.layoutMode = "direction"
  /\ req.images = <<"left", "front">>
  /\ submitted[1].images[1].azimuth = <<270>>

(***************************************************************************)
(* C7  The result after done=false ... done=true with world_id.            *)
(***************************************************************************)
ResolvedWithWorldId ==
  /\ Terminal /\ DoneOk(statusData)
  /\ statusData.resp.present /\ Truthy(statusData.resp.world_id)
\* C7 as claimed: after done=true with response.world_id = w the TourResult
\* has worldId = w and a viewUrl containing w, in every variant.
C7_ViewUrlContainsId ==
  ResolvedWithWorldId =>
    /\ TourResults # <<>>
    /\ TourResults[1].worldId = statusData.resp.world_id
    /\ Contains(TourResults[1].viewUrl, statusData.resp.world_id)
\* C7 amended: after done=true with a non-empty response.world_id = w the
\* TourResult has worldId = w; its viewUrl contains w unless the second page's
\* world lookup gave a world_marble_url, and then viewUrl is that URL.
C7_WorldIdKept ==
  ResolvedWithWorldId =>
    /\ TourResults # <<>>
    /\ TourResults[1].worldId = statusData.resp.world_id
    /\ \/ Contains(TourResults[1].viewUrl, statusData.resp.world_id)
       \/ variant = "web3" /\ TourResults[1].viewUrl = MarbleUrl
\* a pending answer with progress_pct 42 came before the done answer, and the
\* response also carried an id
C7_Witness ==
  /\ ResolvedWithWorldId /\ variant = "web3" /\ progress = 42
  /\ statusData.resp.id = W2
  /\ result # <<>> /\ result[1].viewUrl = DefaultViewUrl(W1)

(***************************************************************************)
(* C8  The order of the phases.                                            *)
(***************************************************************************)
PhaseFollows(p, q) ==
  CASE p = "Idle" -> q \in {"Idle", "Uploading", "Submitting", "Failed"}
    [] p = "Uploading" -> q \in {"Uploading", "Submitting", "Failed"}
    [] p = "Submitting" -> q \in {"Polling", "Failed"}
    [] p = "Polling" -> q \in {"Polling", "Resolved", "Failed", "TimedOut"}
    [] p \in {"Resolved", "Failed", "TimedOut"} -> q \in {p, "Idle"}
    [] OTHER -> FALSE
C8_Order == [][PhaseFollows(Phase, Phase')]_vars
C8_TerminalIsQuiet == Terminal => pc = "final"
\* C8: an instance goes Idle, Uploading, Submitting, Polling in this order (a
\* failure ends it from any of them), leaves Polling only to Resolved, Failed
\* or TimedOut, and once it has ended no upload, submission or poll is pending:
\* the only step left is the reset that starts a new instance at Idle.
C8_PhaseOrder == []C8_TerminalIsQuiet /\ C8_Order
\* the script uploaded, submitted, polled and timed out
C8_Witness ==
  /\ variant = "cli" /\ Terminal /\ Outcome = "TimedOut"
  /\ Len(uploadLog) >= 1 /\ submitted # <<>>

(***************************************************************************)
(* C9  A TourResult only after done=true without error.                    *)
(***************************************************************************)
C9_Inv ==
  /\ (file # <<>> \/ result # <<>>) => (DoneOk(statusData) /\ Phase = "Resolved")
  /\ Phase \in {"Idle", "Uploading", "Submitting", "Polling", "Failed", "TimedOut"}
       => (file = <<>> /\ result = <<>>)
C9_WorldsStep ==
  [][worlds' # worlds =>
       /\ DoneOk(statusData')
       /\ result' # <<>>
       /\ worlds' = <<result'[1]>> \o worlds]_vars
\* C9: a result file or a page result exists only when the last status answer
\* of the instance had done=true and no error, never in another phase; and the
\* worlds list only grows by the result of such an instance.
C9_ResultOnlyAfterDone == []C9_Inv /\ C9_WorldsStep
\* the second page resolved a world and listed it
C9_Witness ==
  /\ variant = "web3" /\ result # <<>> /\ worlds = result
  /\ statusData.resp.present

(***************************************************************************)
(* C10  Polling ends.                                                      *)
(***************************************************************************)
\* C10: every instance that is polling reaches a terminal outcome, given that
\* every request is answered.
C10_PollingEnds == Polling ~> Terminal

(***************************************************************************)
(* C11  A rejected submission.                                             *)
(***************************************************************************)
SubmitRejected == submitStatus # <<>> /\ submitStatus[1] \notin 200..299
AbortedAtSubmission ==
  /\ Terminal /\ pc = "final"
  /\ statusData = NoStatus /\ operationId = Undefined
  /\ file = <<>> /\ result = <<>> /\ worldLog = <<>>
C12_FailedQueryAborts ==
  statusData.k \in {"httperr", "text"} =>
    (Terminal /\ pc = "final" /\ Outcome = "Failed")

(***************************************************************************)
(* C13  The exit code of the script.                                       *)
(***************************************************************************)
\* C13: the script exits with 0 exactly when the workflow succeeded and the
\* result file was written, and with 1 in every other run, a done status
\* without response included.
C13_ExitCode ==
  (variant = "cli" /\ exitCode # <<>>) =>
    /\ exitCode[1] \in {0, 1}
    /\ exitCode[1] = 0 <=> (DoneOk(statusData) /\ file # <<>>)

(***************************************************************************)
(* C14  No partial success in the pages.                                   *)
(***************************************************************************)
\* C14: in the pages, step = done comes with a result and no error, step =
\* error with an error and no result, and step = upload or processing with
\* neither.
C14_NoPartialSuccess ==
  variant \in WebVariants =>
    /\ step = "done" => (result # <<>> /\ error = "none")
    /\ step = "error" => (error # "none" /\ result = <<>>)
    /\ step \in {"upload", "processing"} => (result = <<>> /\ error = "none")
\* the upload handler failed on its second upload
C14_Witness ==
  /\ variant = "web1" /\ step = "error" /\ error = "UploadFailed"
  /\ Len(uploadLog) = 2 /\ result = <<>>

(***************************************************************************)
(* C15  The world lookup of the second page.                               *)
(***************************************************************************)
\* C15: an instance looks the world up at most once; after the lookup the
\* workflow is Resolved, never Failed; its viewUrl is the platform URL of the
\* worldId when the lookup threw, was not ok or had no world_marble_url, and
\* the world_marble_url when the lookup had one.
C15_WorldLookup ==
  /\ Len(worldLog) <= 1
  /\ worldLog # <<>> =>
       /\ variant = "web3" /\ step = "done" /\ error = "none" /\ pc = "final"
       /\ DoneOk(statusData)
       /\ result # <<>>
       /\ worldLog[1] \in {"throw", "notok", "nourl"} =>
            result[1].viewUrl = PlatformPrefix \o ToStr(result[1].worldId)
       /\ worldLog[1] = "url" => result[1].viewUrl = MarbleUrl
  /\ (variant = "web3" /\ step = "done") => Len(worldLog) = 1
\* the lookup threw and the tour is shown with the platform URL
C15_Witness ==
  /\ worldLog = <<"throw">> /\ step = "done"
  /\ result # <<>> /\ result[1].viewUrl = DefaultViewUrl(W1)

(***************************************************************************)
(* C16  The worlds list only grows.                                        *)
(***************************************************************************)
GrowsByOne ==
  /\ Len(worlds') = Len(worlds) + 1
  /\ \E k \in 1..Len(worlds') :
       /\ RemoveAt(worlds', k) = worlds
       /\ result' # <<>> /\ worlds'[k] = result'[1]
\* every step leaves the list alone or adds one entry and keeps the others
C16_Steps == [][worlds' = worlds \/ (GrowsByOne /\ Phase' = "Resolved")]_vars
\* a tour of the second page that resolves adds an entry, one that fails does not
C16_PerWorkflow ==
  [][/\ (variant = "web3" /\ step # "done" /\ step' = "done") => GrowsByOne
     /\ (step # "error" /\ step' = "error") => worlds' = worlds]_vars
C17_AzimuthsIncrease ==
  variant = "cli" =>
    \A j \in 1..Len(uploaded) :
      /\ uploaded[j].azimuth # <<>>
      /\ uploaded[j].azimuth[1] >= 0 /\ uploaded[j].azimuth[1] < 360
      /\ j > 1 => uploaded[j - 1].azimuth[1] < uploaded[j].azimuth[1]
\* 37 images: the step 9.73 is not a whole number and the last azimuth is 350
C17_Witness ==
  /\ Len(inputs) = 37 /\ Len(uploaded) = 37
  /\ uploaded[37].azimuth = <<350>> /\ submitted # <<>>

(***************************************************************************)
(* C18  Direction control with any request body.                           *)
(***************************************************************************)
\* C18: in a direction-control submission of several images every image has
\* an azimuth among 0, 90, 180, 270: that of its direction, or 0 when it has
\* none, whatever direction the request body holds.
C18_AlwaysAnAzimuth ==
  (MultiSubmitted /\ variant = "web3" /\ req.layoutMode = "direction") =>
    \A j \in 1..Len(req.images) :
      LET az == submitted[1].images[j].azimuth
      IN /\ az # <<>>
         /\ az[1] \in {0, 90, 180, 270}
         /\ req.images[j] \in DIRECTIONS => az[1] = CompassDegrees(req.images[j])
         /\ req.images[j] = "none" => az[1] = 0

(***************************************************************************)
(* C19  One workflow instance at a time.                                   *)
(***************************************************************************)
\* C19: in the pages, handleGenerate is running exactly while step is
\* processing: at the upload step, where one can start, none is running; at
\* the done and the error step, where reset is offered, the one that ran has
\* ended.
C19_OneInstance ==
  variant \in WebVariants =>
    /\ step = "upload" => pc = "idle"
    /\ step = "processing" =>
         pc \in {"upload", "submit", "sleep", "status_wait", "world_wait"}
    /\ step \in {"done", "error"} => pc = "final"
\* the poll loop has seen done and set completed, the lookup is under way and
\* the page still shows processing
C19_Witness ==
  /\ variant = "web3" /\ step = "processing" /\ pc = "world_wait"
  /\ DoneOk(statusData)

(***************************************************************************)
(* C20  The media references of the script.                                *)
(***************************************************************************)
\* C20: every reference the script has built has exactly one of url and
\* media_id: url for an input that starts with http, with no upload for it;
\* media_id for any other input, after exactly one upload for it.
C20_OneOfUrlOrMediaId ==
  variant = "cli" =>
    \A j \in 1..Len(uploaded) :
      /\ inputs[j] = "http" =>
           (uploaded[j].ref = "url" /\ Count(uploadLog, j) = 0)
      /\ inputs[j] # "http" =>
           (uploaded[j].ref = "media_id" /\ Count(uploadLog, j) = 1)

(***************************************************************************)
(* C21  The uploads of a multi-image workflow.                             *)
(***************************************************************************)
\* the workflow runs an upload loop over several inputs
UploadLoop == (variant = "cli" /\ cliMode = "multi") \/ variant = "web1"
\* C21: in a multi-image workflow the uploads go out in input order, one for
\* each input that needs one; an upload goes out only when every input before
\* it has its entry (its upload, if any, succeeded); the submission goes out
\* only when every input has its entry, and entry i of the submitted list is
\* that of input i.
C21_UploadsInOrder ==
  UploadLoop =>
    LET n == IF variant = "cli" THEN Len(inputs) ELSE Len(req.images)
        NeedsUpload(j) == variant = "web1" \/ inputs[j] = "file"
    IN /\ Len(uploaded) <= n
       /\ \A a, b \in 1..Len(uploadLog) : a < b => uploadLog[a] < uploadLog[b]
       /\ \A k \in 1..Len(uploadLog) :
            /\ uploadLog[k] \in 1..n /\ NeedsUpload(uploadLog[k])
            /\ uploadLog[k] <= Len(uploaded) + 1
            /\ uploadLog[k] = Len(uploaded) + 1 =>
                 (uploadStatus # <<>> /\ ~StatusOk(uploadStatus[1]) /\ pc = "final")
       /\ \A j \in 1..Len(uploaded) :
            /\ NeedsUpload(j) <=> Count(uploadLog, j) = 1
            /\ NeedsUpload(j) <=> uploaded[j].ref # "url"
            /\ uploaded[j].azimuth = <<Azimuth(j - 1, n)>>
       /\ pc = "upload" => (submitted = <<>> /\ Len(uploaded) = idx - 1 /\ idx <= n)
       /\ submitted # <<>> =>
            /\ Len(uploaded) = n
            /\ (variant = "cli" \/ n > 1) => submitted[1].images = uploaded
\* the script with a URL between two files: two uploads, three entries
C21_Witness ==
  /\ variant = "cli" /\ inputs = <<"file", "http", "file">>
  /\ uploadLog = <<1, 3>> /\ submitted # <<>>
  /\ submitted[1].images[2].ref = "url"

(***************************************************************************)
(* C22  The progress shown after a status answer.                          *)
(***************************************************************************)
\* C22: after a status answer that is not done and carries progress_pct = p,
\* the progress shown is p, for p = 0 as for any other p, and the progress
\* shown is always within 0..100.
C22_ProgressShown ==
  /\ Displayed(variant, progress) \in 0..100
  /\ (pc = "sleep" /\ statusData.k = "pending" /\ statusData.pct # <<>>) =>
       Displayed(variant, progress) = statusData.pct[1]

(***************************************************************************)
(* C23  The wait between two status queries.                               *)
(***************************************************************************)
\* C23: every wait of a poll loop lasts 5000 ms in the script and 3000 ms in
\* the pages, whatever was polled or answered before; the pages wait before
\* every query, the script between any two.
C23_FixedWait ==
  /\ lastWait # <<>> => lastWait[1] = (IF variant = "cli" THEN 5000 ELSE 3000)
  /\ (variant \in WebVariants /\ pc = "status_wait") => lastWait # <<>>
  /\ (variant = "cli" /\ pc = "poll_top" /\ elapsed > 0) => lastWait # <<>>
\* the second page waits for the answer to a later query, after an answer
\* that reported 42 percent
C23_Witness ==
  /\ variant = "web3" /\ pc = "status_wait" /\ progress = 42
  /\ lastWait = <<3000>>

(***************************************************************************)
(* C24  The number of photos and the layout mode.                          *)
(***************************************************************************)
\* C24: in the second page the number of selected photos is never above the
\* limit of the current layout mode (8 in auto, 4 in direction control), and
\* no direction-control request has more than 4 images.
C24_WithinLayoutLimit ==
  variant = "web3" =>
    /\ Len(images) <= maxImages
    /\ (submitted # <<>> /\ req.inputType = "images" /\ req.layoutMode = "direction")
         => Len(req.images) <= DirectionMaxImages

(***************************************************************************)
(* C25  What the page sends when Generate is clicked.                      *)
(***************************************************************************)
\* C25: the request of a workflow a page has started satisfies canGenerate:
\* it has the video for video input, the panorama for panorama input, at
\* least one image for image input, and in direction control with two or
\* more images a direction on every image.
C25_StartedOnlyIfCanGenerate ==
  (variant \in WebVariants /\ pc # "idle") =>
    /\ req.inputType = "video" => req.video
    /\ req.inputType = "panorama" => req.panorama
    /\ req.inputType = "images" => Len(req.images) >= 1
    /\ (req.inputType = "images" /\ req.layoutMode = "direction"
          /\ Len(req.images) >= 2) =>
         \A j \in 1..Len(req.images) : req.images[j] \in DIRECTIONS
\* two photos that both look back are sent in direction control
C25_Witness ==
  /\ variant = "web3" /\ step = "processing" /\ submitted # <<>>
  /\ req.layoutMode = "direction" /\ req.images = <<"back", "back">>

(***************************************************************************)
(* C26  No image job without images.                                       *)
(***************************************************************************)
\* C26: no submission of an image or multi-image job has an empty image
\* list: a handler that gets no images answers NoInput and submits nothing,
\* and the script does not submit when --images is followed by no path.
C26_NoEmptyImageJob ==
  /\ (submitted # <<>> /\ submitted[1].kind \in {"image", "multi"}) =>
       Len(submitted[1].images) >= 1
  /\ (variant \in WebVariants /\ pc # "idle" /\ req.inputType = "images"
        /\ Len(req.images) = 0) =>
       (submitted = <<>> /\ step = "error")
  /\ (variant = "cli" /\ cliMode = "multi" /\ Len(inputs) = 0) => submitted = <<>>

(***************************************************************************)
(* C27  The operation id of the status queries.                            *)
(***************************************************************************)
\* C27: while a workflow polls, the operation id its status queries carry is
\* the one the submission answer gave; a workflow whose accepted submission
\* answer had no operation_id does not poll.
C27_PollsWithOperationId ==
  pc \in {"poll_top", "status_wait", "sleep", "world_wait"} => operationId = OpId

(***************************************************************************)
(* C28  What the endpoints do with an invalid request.                     *)
(***************************************************************************)
\* no request has gone to the vendor
NoVendorRequest == uploadLog = <<>> /\ submitted = <<>> /\ pc \in {"idle", "final"}
C29_ResetFrame ==
  [][(step # "upload" /\ step' = "upload") =>
       /\ images' = <<>> /\ name' = Empty /\ progress' = 0
       /\ result' = <<>> /\ error' = "none"
       /\ video' = FALSE /\ panorama' = FALSE
       /\ worlds' = worlds /\ mode' = mode
       /\ inputType' = inputType /\ layoutMode' = layoutMode]_vars
\* after a draft tour of a panorama and a reset: the gallery entry, the draft
\* mode and the panorama tab are kept, the name and the panorama are gone
C29_Witness ==
  /\ variant = "web3" /\ step = "upload" /\ pc = "idle"
  /\ Len(worlds) = 1 /\ mode = "draft" /\ inputType = "panorama"
  /\ name = Empty /\ ~panorama /\ result = <<>>

(***************************************************************************)
(* C30  The progress of the second page without progress_pct.              *)
(***************************************************************************)
\* C30: when a status answer that is not done carries no progress_pct, the
\* second page raises its progress by 3, up to 95 at most: the progress
\* does not go down and stays below 100 until the tour is done.
C30_FallbackProgress ==
  [][(variant = "web3" /\ pc = "status_wait" /\ pc' = "sleep"
       /\ statusData'.pct = <<>>) =>
      /\ progress' = (IF progress + 3 < 95 THEN progress + 3 ELSE 95)
      /\ progress' >= progress /\ progress' < 100]_vars

====
